---- MODULE Spec2Model ----
(***************************************************************************)
(* Asset localization and stylesheet/document rewrite engine of            *)
(* src/extractor/liferay-nextjs-ssg/src/lib/liferay.ts.                    *)
(*                                                                         *)
(* The model follows the event loop: every action is one continuation of   *)
(* an async function between two awaits, together with the system call or  *)
(* network event it waits for.  The file system under public/ and the      *)
(* source server are shared by every page built in the same run.           *)
(***************************************************************************)
EXTENDS Integers, Sequences, FiniteSets, TLC

----------------------------------------------------------------------------
(* Bounds of the model *)

\* Localization tasks (entries of assetPromises) over the whole build.
MaxTasks == 2
\* Nested processAndRewriteCssUrls invocations of one task (recursion depth).
MaxDepth == 3
\* Tokens of the stylesheet text chosen freely in the initial state.
MaxCssLen == 2
\* Candidates of a srcset attribute.
MaxCands == 2
\* url() references of a style attribute.
MaxAttrUrls == 3
\* Inline <style> blocks of a document.
MaxStyleTags == 2
\* Requests the browser issues while a page is rendered.
MaxRequests == 2

----------------------------------------------------------------------------
(* URLs and references.                                                    *)
(* A reference, as written in a document or stylesheet, and an absolute   *)
(* URL are records of the same shape; form tells how it is written:        *)
(*   "abs"      http://host/dir/name.ext?q                                 *)
(*   "rootrel"  /dir/name.ext?q            (origin-relative)               *)
(*   "rel"      name.ext?q                 (relative to the base's dir)    *)
(*   "protorel" //host/dir/name.ext                                        *)
(*   "data"     data:...                                                   *)
(*   "bad"      a string new URL() rejects                                 *)
(* hashOf is <<u>> when name is the SHA-256 hex digest of URL u, else <<>>. *)

Ref(form, host, dir, name, ext, q) ==
  [form |-> form, host |-> host, dir |-> dir, name |-> name, ext |-> ext,
   q |-> q, hashOf |-> <<>>]

\* process.env.LIFERAY_HOST is "http://src.test"; OriginHost is its hostname.
OriginHost == "src.test"

\* A host whose name merely begins with the text of LIFERAY_HOST's hostname.
LookalikeHost == "src.test.evil.example"

ExternalHost == "external.example"

\* The value of LIFERAY_HOST itself, used as baseUrl of a document.
LIFERAY_HOST == Ref("abs", OriginHost, "/", "", "", "")

\* absoluteUrl.startsWith(LIFERAY_HOST): a test on the text of the URL.
startsWithLiferayHost(u) ==
  u.form = "abs" /\ u.host \in {OriginHost, LookalikeHost}

\* Whether new URL(ref, base) succeeds.
canParse(ref) == ref.form \in {"abs", "rootrel", "rel", "protorel", "data"}

\* new URL(ref, base).toString()
resolve(ref, base) ==
  CASE ref.form = "rootrel"  -> [ref EXCEPT !.form = "abs", !.host = base.host]
    [] ref.form = "rel"      -> [ref EXCEPT !.form = "abs", !.host = base.host,
                                            !.dir = base.dir]
    [] ref.form = "protorel" -> [ref EXCEPT !.form = "abs"]
    [] OTHER                 -> ref

NoRef == Ref("none", "", "", "", "", "")

----------------------------------------------------------------------------
(* The Asset Localizer's names: downloadAndRewriteAsset, lines 473-479.    *)

AssetTypes == {"images", "styles", "scripts", "fonts"}

\* createHash('sha256').update(originalAbsoluteUrl).digest('hex'): the
\* digest is kept as its preimage (SHA-256 is taken to be injective).
hash(u) == <<u>>

\* path.extname(new URL(u).pathname) unless the type fixes the extension.
extension(u, assetType) ==
  IF assetType = "styles" THEN ".css"
  ELSE IF assetType = "scripts" THEN ".js"
  ELSE u.ext

\* The text "/assets/<assetType>/" of publicPath.
assetDir(assetType) ==
  CASE assetType = "images"  -> "/assets/images/"
    [] assetType = "styles"  -> "/assets/styles/"
    [] assetType = "scripts" -> "/assets/scripts/"
    [] assetType = "fonts"   -> "/assets/fonts/"

publicPathUntyped(u, assetType) ==
  [form |-> "rootrel", host |-> "", dir |-> "/assets/",
   name |-> "sha256", ext |-> u.ext, q |-> "", hashOf |-> hash(u)]

\* publicPath = `/assets/${assetType}/${hash}${extension}`
publicPath(u, assetType) ==
  [form |-> "rootrel", host |-> "", dir |-> assetDir(assetType),
   name |-> "sha256", ext |-> extension(u, assetType), q |-> "",
   hashOf |-> hash(u)]

\* path.join(process.cwd(), 'public', p): the file a public path names.
publicJoin(p) == [root |-> "public", rel |-> p]

\* localFilePath = path.join(process.cwd(), 'public', 'assets', assetType,
\* localFilename)
localFilePath(u, assetType) ==
  publicJoin([form |-> "rootrel", host |-> "", dir |-> assetDir(assetType),
              name |-> "sha256", ext |-> extension(u, assetType), q |-> "",
              hashOf |-> hash(u)])

----------------------------------------------------------------------------
(* Stylesheet text.  A text is a sequence of tokens: a rule without any    *)
(* reference, an @import directive, a url(...) reference, or (for a file   *)
(* that is no stylesheet) the bytes served for a URL.  Two tokens are      *)
(* equal exactly when their source text is equal.                          *)

Rule(id)       == [k |-> "rule",   ref |-> Ref("text", "", "", id, "", "")]
ImportTok(ref) == [k |-> "import", ref |-> ref]
UrlTok(ref)    == [k |-> "url",    ref |-> ref]
Bytes(u)       == [k |-> "bytes",  ref |-> u]

isImport(tok) == tok.k = "import"

\* urlRegex = /url\((?!['"]?data:)(['"]?)(.*?)\1\)/g : data URIs never match.
isUrlMatch(tok) == tok.k = "url" /\ tok.ref.form # "data"

\* Array.from(inlinedCss.matchAll(importRegex)): match[0] of every match.
importMatches(text) == SelectSeq(text, isImport)

\* The successive urlRegex.exec(inlinedCss) matches.
urlMatches(text) == SelectSeq(text, isUrlMatch)

\* Index of the first occurrence of tok in text, 0 when there is none.
indexOf(text, tok) ==
  IF \E i \in 1..Len(text) : text[i] = tok
  THEN CHOOSE i \in 1..Len(text) :
         text[i] = tok /\ \A j \in 1..(i - 1) : text[j] # tok
  ELSE 0

\* String.prototype.replace(from, to) with a string pattern: the first
\* occurrence only.
replaceFirst(text, from, to) ==
  LET i == indexOf(text, from) IN
  IF i = 0 THEN text
  ELSE SubSeq(text, 1, i - 1) \o to \o SubSeq(text, i + 1, Len(text))

\* String.prototype.replaceAll(from, to)
replaceAll(text, from, to) ==
  [i \in 1..Len(text) |-> IF text[i] = from THEN to ELSE text[i]]

\* for (const { from, to } of importReplacements)
\*   inlinedCss = inlinedCss.replace(from, to)
RECURSIVE applyImportReplacements(_, _)
applyImportReplacements(text, repl) ==
  IF repl = <<>> THEN text
  ELSE applyImportReplacements(
         replaceFirst(text, Head(repl).from, Head(repl).to), Tail(repl))

\* for (const replacement of replacements)
\*   processedCss = processedCss.replaceAll(replacement.from, replacement.to)
RECURSIVE applyUrlReplacements(_, _)
applyUrlReplacements(text, repl) ==
  IF repl = <<>> THEN text
  ELSE applyUrlReplacements(
         replaceAll(text, Head(repl).from, Head(repl).to), Tail(repl))

\* originalUrl.match(/\.(png|jpg|jpeg|gif|svg|webp|eot|ttf|woff|woff2)$/i)
\*   ? 'images' : 'fonts'   -- the test is on the reference as written.
cssAssetType(originalUrl) ==
  IF originalUrl.q = "" /\
     originalUrl.ext \in {".png", ".jpg", ".jpeg", ".gif", ".svg", ".webp",
                          ".eot", ".ttf", ".woff", ".woff2"}
  THEN "images" ELSE "fonts"

----------------------------------------------------------------------------
(* State *)

VARIABLES
  fs,       \* files under public/: file |-> content (a text)
  fetches,  \* network requests issued so far: url |-> how many
  tasks,    \* the localization tasks started so far, in start order
  pages,    \* one rewriteAndDownloadAssets invocation per page
  web,      \* what the source server serves for a stylesheet URL
  anyFail,  \* whether some fetch has failed so far
  returns   \* every value downloadAndRewriteAsset has returned, with its call

vars == <<fs, fetches, tasks, pages, web, anyFail, returns>>

Pages == {"p1", "p2"}

\* How a fetch can end: response.ok, a non-success status, a thrown error.
Outcomes == {"ok", "notok", "throw"}

\* URLs of the source origin used by the documents of the build.
ImgT    == Ref("abs", OriginHost, "/i/", "a", ".png", "?t=1")
MainCss == Ref("abs", OriginHost, "/o/", "main", ".css", "")
ACss    == Ref("abs", OriginHost, "/o/", "a", ".css", "")
BCss    == Ref("abs", OriginHost, "/o/", "b", ".css", "")
AppJs   == Ref("abs", OriginHost, "/o/", "app", ".js", "")

\* response.text() / response.arrayBuffer() of a successful fetch of u.
body(u) == IF u \in DOMAIN web THEN web[u] ELSE <<Bytes(u)>>

fetchCount(u) == IF u \in DOMAIN fetches THEN fetches[u] ELSE 0

countFetch(u) == (u :> (fetchCount(u) + 1)) @@ fetches

writeFile(file, content) == (file :> content) @@ fs

fileExistsNever(file) == FALSE

\* await fs.access(localFilePath) succeeds.
fileExists(file) == file \in DOMAIN fs

cacheHitValueFilePath(u, assetType) ==
  [publicPath(u, assetType) EXCEPT !.form = "file"]

\* return publicPath, on the branch where the file already exists.
cacheHitValue(u, assetType) == publicPath(u, assetType)

responseOkUnchecked(o) == o # "throw"

\* response.ok
responseOk(o) == o = "ok"

isCircularNever(absoluteUrl, baseUrl) == FALSE

\* if (absoluteUrl === baseUrl): the basic circular dependency check.
isCircular(absoluteUrl, baseUrl) == absoluteUrl = baseUrl

\* One return of downloadAndRewriteAsset(u, assetType).
returned(u, assetType, value) ==
  returns \cup {[url |-> u, type |-> assetType, res |-> value]}

\* One frame of processAndRewriteCssUrls(cssContent, baseUrl).
Frame(cssContent, baseUrl) ==
  [base |-> baseUrl, text |-> cssContent, phase |-> "imports", k |-> 1,
   repl |-> <<>>]

\* The asset type each call site passes to downloadAndRewriteAsset.
assetTypeOf(kind) ==
  CASE kind = "img"    -> "images"
    [] kind = "sheet"  -> "styles"
    [] kind = "script" -> "scripts"
    [] kind = "cand"   -> "images"   \* a candidate of a <source srcset>
    [] kind = "use"    -> "images"   \* the sprite of an <svg><use href>
    [] kind = "surl"   -> "images"   \* a url() of a style attribute

\* Program points after which a task's downloadAndRewriteAsset has returned.
Returned == {"then", "read", "css", "wopen", "wdata", "ok", "rejected"}

Settled == {"ok", "rejected"}

----------------------------------------------------------------------------
(* The source server.                                                      *)

\* The tokens a stylesheet of the source is made of.
Alphabet ==
  { Rule("r1"),
    ImportTok(Ref("rel", "", "", "main", ".css", "")),
    ImportTok(Ref("rel", "", "", "a", ".css", "")),
    ImportTok(Ref("rel", "", "", "b", ".css", "")),
    ImportTok(Ref("rel", "", "", "c", ".css", "")),
    ImportTok(Ref("abs", ExternalHost, "/x/", "ext", ".css", "")),
    UrlTok(Ref("rootrel", "", "/i/", "a", ".png", "")),
    UrlTok(Ref("rootrel", "", "/i/", "a", ".png", "?t=1")),
    UrlTok(Ref("rel", "", "", "f", ".woff", "")),
    UrlTok(Ref("abs", ExternalHost, "/x/", "e", ".png", "")),
    UrlTok(Ref("abs", LookalikeHost, "/x/", "e", ".png", "")),
    UrlTok(Ref("data", "", "", "d", "", "")),
    UrlTok(Ref("bad", "", "", "", "", "")) }

Texts == UNION { [1..n -> Alphabet] : n \in 0..MaxCssLen }

CCss == Ref("abs", OriginHost, "/o/", "c", ".css", "")

\* The stylesheets of the source origin: main.css is any small text; a.css
\* imports main.css, b.css imports a.css, c.css imports nothing.
Web(mainText) ==
  (MainCss :> mainText) @@
  (ACss :> <<ImportTok(Ref("rel", "", "", "main", ".css", "")), Rule("ra")>>) @@
  (BCss :> <<Rule("rb"), ImportTok(Ref("rel", "", "", "a", ".css", ""))>>) @@
  (CCss :> <<Rule("rc"), UrlTok(Ref("rootrel", "", "/i/", "a", ".png", ""))>>)

SimpleText ==
  <<Rule("r1"), UrlTok(Ref("rootrel", "", "/i/", "a", ".png", "?t=1"))>>

\* Concurrent tasks are explored over the simple site, every other
\* stylesheet with one task.
TaskLimit == IF web[MainCss] = SimpleText THEN MaxTasks ELSE 1

----------------------------------------------------------------------------
(* rewriteAndDownloadAssets: starting the tasks of a page, and the join.   *)

\* What a page's document and discovered-URL lists give rise to: an <img>
\* with an origin-relative src, a discovered stylesheet, a discovered script.
Items ==
  { [kind |-> "img",    ref |-> Ref("rootrel", "", "/i/", "a", ".png", "?t=1")],
    [kind |-> "sheet",  ref |-> MainCss],
    [kind |-> "script", ref |-> AppJs] }

\* discoveredCssUrls and discoveredJsUrls come from a Set: no URL twice.
validItems(items) ==
  \A i, j \in 1..Len(items) :
    (i # j /\ items[i].kind \in {"sheet", "script"}) => items[i] # items[j]

ItemSeqs(n) == UNION { [1..m -> Items] : m \in 1..n }

NewTask(p, item, after) ==
  [page |-> p, kind |-> item.kind,
   url |-> resolve(item.ref, LIFERAY_HOST),
   attr |-> item.ref,          \* the attribute of the element, as it stands
   pc |-> "access", res |-> NoRef, buf |-> <<>>, stack |-> <<>>,
   input |-> <<>>,             \* rawCssContent, once the file is read back
   resp |-> "none",            \* how this call's fetch ended
   nfetch |-> 0,               \* fetches this call has issued
   el |-> 0,                   \* the <style> element the task belongs to
   failed |-> {},              \* the @import targets whose fetch failed
   after |-> after]            \* the calls that had returned when it began

NoUnit == [kind |-> "none"]

\* getLiferayFullPageHtml before its first step: no browser, empty sets.
NoRender ==
  [pc |-> "launch", browser |-> "none", requests |-> <<>>,
   discoveredCssUrls |-> <<>>, discoveredJsUrls |-> <<>>,
   out |-> [kind |-> "none"]]

NewPage ==
  [status |-> "idle", extractedStyles |-> <<>>, extractedLinkStyles |-> <<>>,
   extractedScriptPaths |-> <<>>, html |-> <<>>,
   render |-> NoRender,        \* the Render Driver's call for the page
   src |-> NoUnit,             \* the element of the html argument, as given
   dom |-> NoUnit,             \* the same element in the cheerio tree $
   map |-> <<>>]               \* replacementsMap of a style attribute

TasksOf(ts, p) == {i \in 1..Len(ts) : ts[i].page = p}

\* await Promise.all(assetPromises), then return { html: $.html(), ... }:
\* Promise.all rejects as soon as one task rejects and fulfils when all
\* have; the function returns or throws in the same turn of the event loop.
joinPage(pg, p, ts) ==
  IF pg.status # "running" THEN pg
  ELSE IF \E i \in TasksOf(ts, p) : ts[i].pc = "rejected"
    THEN [pg EXCEPT !.status = "threw"]
  ELSE IF \A i \in TasksOf(ts, p) : ts[i].pc = "ok"
    THEN [pg EXCEPT !.status = "returned",
                    !.html = [i \in TasksOf(ts, p) |-> ts[i].attr]]
  ELSE pg

\* The synchronous part of rewriteAndDownloadAssets: every task of the page
\* is started (each runs to its first await) before the function awaits.
StartRewrite(p) ==
  /\ pages[p].status = "idle"
  /\ Len(tasks) < TaskLimit
  /\ \E items \in ItemSeqs(TaskLimit - Len(tasks)) :
       /\ validItems(items)
       /\ LET after == {j \in 1..Len(tasks) : tasks[j].pc \in Returned} IN
          tasks' = tasks \o [i \in 1..Len(items) |-> NewTask(p, items[i], after)]
  /\ pages' = [pages EXCEPT ![p].status = "running"]
  /\ UNCHANGED <<fs, fetches, web, anyFail, returns>>

----------------------------------------------------------------------------
(* downloadAndRewriteAsset(originalAbsoluteUrl, assetType), one task i.    *)

\* await fs.access(localFilePath): on success return publicPath, otherwise
\* issue fetch(originalAbsoluteUrl).
Access(i) ==
  LET t == tasks[i]
      type == assetTypeOf(t.kind) IN
  /\ t.pc = "access"
  /\ IF fileExists(localFilePath(t.url, type))
     THEN /\ tasks' = [tasks EXCEPT ![i].res = cacheHitValue(t.url, type),
                                    ![i].pc = "then"]
          /\ returns' = returned(t.url, type, cacheHitValue(t.url, type))
          /\ UNCHANGED fetches
     ELSE /\ tasks' = [tasks EXCEPT ![i].pc = "fetch",
                                    ![i].nfetch = @ + 1]
          /\ fetches' = countFetch(t.url)
          /\ UNCHANGED returns
  /\ UNCHANGED <<fs, pages, web, anyFail>>

\* The response arrives: read its body and go on to write it, or return
\* originalAbsoluteUrl when it is not ok or fetch throws.
Response(i) ==
  LET t == tasks[i] IN
  /\ t.pc = "fetch"
  /\ \E o \in Outcomes :
       IF responseOk(o)
       THEN /\ tasks' = [tasks EXCEPT ![i].buf = body(t.url),
                                      ![i].resp = o, ![i].pc = "open"]
            /\ UNCHANGED <<anyFail, returns>>
       ELSE /\ tasks' = [tasks EXCEPT ![i].res = t.url, ![i].resp = o,
                                      ![i].pc = "then"]
            /\ anyFail' = TRUE
            /\ returns' = returned(t.url, assetTypeOf(t.kind), t.url)
  /\ UNCHANGED <<fs, fetches, pages, web>>

\* fs.writeFile(localFilePath, content) opens the file with flag 'w': the
\* file is created, or truncated, before any data is written.
Open(i) ==
  LET t == tasks[i] IN
  /\ t.pc = "open"
  /\ fs' = writeFile(localFilePath(t.url, assetTypeOf(t.kind)), <<>>)
  /\ tasks' = [tasks EXCEPT ![i].pc = "data"]
  /\ UNCHANGED <<fetches, pages, web, anyFail, returns>>

\* The data is written and the call returns publicPath.
Data(i) ==
  LET t == tasks[i]
      type == assetTypeOf(t.kind) IN
  /\ t.pc = "data"
  /\ fs' = writeFile(localFilePath(t.url, type), t.buf)
  /\ tasks' = [tasks EXCEPT ![i].res = publicPath(t.url, type),
                            ![i].pc = "then"]
  /\ returns' = returned(t.url, type, publicPath(t.url, type))
  /\ UNCHANGED <<fetches, pages, web, anyFail>>

----------------------------------------------------------------------------
(* The .then() continuations of rewriteAndDownloadAssets.                  *)

\* <img>: $(img).attr('src', newSrc).  Discovered script:
\* extractedScriptPaths.push(localPath).  Discovered stylesheet:
\* extractedLinkStylePaths.push(localPath), then the file is read back.
Then(i) ==
  LET t == tasks[i]
      p == t.page IN
  /\ t.pc = "then"
  /\ t.kind \in {"img", "script", "sheet"}
  /\ LET ts == CASE t.kind = "img" ->
                      [tasks EXCEPT ![i].attr = t.res, ![i].pc = "ok"]
                 [] t.kind = "script" -> [tasks EXCEPT ![i].pc = "ok"]
                 [] t.kind = "sheet"  -> [tasks EXCEPT ![i].pc = "read"]
         pg == CASE t.kind = "img" -> pages[p]
                 [] t.kind = "script" ->
                      [pages[p] EXCEPT !.extractedScriptPaths = Append(@, t.res)]
                 [] t.kind = "sheet" ->
                      [pages[p] EXCEPT !.extractedLinkStyles = Append(@, t.res)]
     IN /\ tasks' = ts
        /\ pages' = [pages EXCEPT ![p] = joinPage(pg, p, ts)]
  /\ UNCHANGED <<fs, fetches, web, anyFail, returns>>

\* rawCssContent = await fs.readFile(path.join(cwd, 'public', localPath)):
\* the read fails, and the task rejects, when no such file exists.
Read(i) ==
  LET t == tasks[i]
      p == t.page
      file == publicJoin(t.res) IN
  /\ t.pc = "read"
  /\ LET ts == IF fileExists(file)
               THEN [tasks EXCEPT ![i].buf = fs[file], ![i].pc = "css",
                                  ![i].input = fs[file],
                                  ![i].stack = <<Frame(fs[file], t.url)>>]
               ELSE [tasks EXCEPT ![i].pc = "rejected"]
     IN /\ tasks' = ts
        /\ pages' = [pages EXCEPT ![p] = joinPage(pages[p], p, ts)]
  /\ UNCHANGED <<fs, fetches, web, anyFail, returns>>

\* await fs.writeFile(path.join(cwd, 'public', localPath), processedCssContent)
WOpen(i) ==
  LET t == tasks[i] IN
  /\ t.pc = "wopen"
  /\ fs' = writeFile(publicJoin(t.res), <<>>)
  /\ tasks' = [tasks EXCEPT ![i].pc = "wdata"]
  /\ UNCHANGED <<fetches, pages, web, anyFail, returns>>

WData(i) ==
  LET t == tasks[i]
      p == t.page
      ts == [tasks EXCEPT ![i].pc = "ok"] IN
  /\ t.pc = "wdata"
  /\ fs' = writeFile(publicJoin(t.res), t.buf)
  /\ tasks' = ts
  /\ pages' = [pages EXCEPT ![p] = joinPage(pages[p], p, ts)]
  /\ UNCHANGED <<fetches, web, anyFail, returns>>

----------------------------------------------------------------------------
(* processAndRewriteCssUrls(cssContent, baseUrl): the innermost running    *)
(* invocation of task i is the last frame of its stack.  The imports of a  *)
(* text are taken in order, each to its end, and so are its url() matches. *)

top(t) == t.stack[Len(t.stack)]

setTop(t, frame) == [t EXCEPT !.stack[Len(t.stack)] = frame]

\* Records one entry of importReplacements / replacements and moves on.
replaced(frame, from, to) ==
  [frame EXCEPT !.repl = Append(@, [from |-> from, to |-> to]), !.k = @ + 1]

importKept(match) == <<match>>

\* return { from: match[0], to: '' }: remove if fails or invalid.
onImportFailure(match) == <<>>

\* The body of importMatches.map(async (match) => ...) for the next match.
CssImport(i) ==
  LET t == tasks[i]
      f == top(t)
      match == importMatches(f.text)[f.k]
      importUrl == match.ref
      absoluteUrl == resolve(importUrl, f.base) IN
  /\ t.pc = "css"
  /\ f.phase = "imports"
  /\ f.k <= Len(importMatches(f.text))
  /\ IF ~canParse(importUrl)
     THEN \* new URL throws: caught, the directive is removed
          /\ tasks' = [tasks EXCEPT ![i] = setTop(t, replaced(f, match, <<>>))]
          /\ UNCHANGED <<fetches, anyFail>>
     ELSE IF ~startsWithLiferayHost(absoluteUrl)
     THEN \* external import, left as it is
          /\ tasks' = [tasks EXCEPT ![i] = setTop(t, replaced(f, match, <<match>>))]
          /\ UNCHANGED <<fetches, anyFail>>
     ELSE IF isCircular(absoluteUrl, f.base)
     THEN \* basic circular dependency check
          /\ tasks' = [tasks EXCEPT ![i] = setTop(t, replaced(f, match, <<>>))]
          /\ UNCHANGED <<fetches, anyFail>>
     ELSE \* fetch(absoluteUrl), then recurse into the imported text
          /\ Len(t.stack) < MaxDepth
          /\ fetches' = countFetch(absoluteUrl)
          /\ \E o \in Outcomes :
               IF responseOk(o)
               THEN /\ tasks' = [tasks EXCEPT ![i].stack =
                                   Append(@, Frame(body(absoluteUrl), absoluteUrl))]
                    /\ UNCHANGED anyFail
               ELSE /\ tasks' = [tasks EXCEPT
                                   ![i] = [setTop(t, replaced(f, match,
                                                  onImportFailure(match)))
                                           EXCEPT !.failed = @ \cup {absoluteUrl}]]
                    /\ anyFail' = TRUE
  /\ UNCHANGED <<fs, pages, web, returns>>

\* All imports are resolved: splice them in, then scan for url().
CssInline(i) ==
  LET t == tasks[i]
      f == top(t) IN
  /\ t.pc = "css"
  /\ f.phase = "imports"
  /\ f.k > Len(importMatches(f.text))
  /\ tasks' = [tasks EXCEPT ![i] =
                 setTop(t, [f EXCEPT !.text = applyImportReplacements(f.text, f.repl),
                                     !.phase = "urls", !.k = 1, !.repl = <<>>])]
  /\ UNCHANGED <<fs, fetches, pages, web, anyFail, returns>>

\* The body of while ((match = urlRegex.exec(inlinedCss)) !== null) for the
\* next match, with the downloadAndRewriteAsset call it starts.
CssUrl(i) ==
  LET t == tasks[i]
      f == top(t)
      match == urlMatches(f.text)[f.k]
      originalUrl == match.ref
      absoluteUrl == resolve(originalUrl, f.base)
      assetType == cssAssetType(originalUrl)
      file == localFilePath(absoluteUrl, assetType)
      skip == [tasks EXCEPT ![i] = setTop(t, [f EXCEPT !.k = @ + 1])]
      done(newLocalUrl) ==
        [tasks EXCEPT ![i] = setTop(t, replaced(f, match, UrlTok(newLocalUrl)))] IN
  /\ t.pc = "css"
  /\ f.phase = "urls"
  /\ f.k <= Len(urlMatches(f.text))
  /\ IF ~canParse(originalUrl) \/ ~startsWithLiferayHost(absoluteUrl)
     THEN /\ tasks' = skip
          /\ UNCHANGED <<fs, fetches, anyFail, returns>>
     ELSE IF fileExists(file)
     THEN /\ tasks' = done(cacheHitValue(absoluteUrl, assetType))
          /\ returns' = returned(absoluteUrl, assetType,
                                 cacheHitValue(absoluteUrl, assetType))
          /\ UNCHANGED <<fs, fetches, anyFail>>
     ELSE /\ fetches' = countFetch(absoluteUrl)
          /\ \E o \in Outcomes :
               IF responseOk(o)
               THEN /\ fs' = writeFile(file, body(absoluteUrl))
                    /\ tasks' = done(publicPath(absoluteUrl, assetType))
                    /\ returns' = returned(absoluteUrl, assetType,
                                           publicPath(absoluteUrl, assetType))
                    /\ UNCHANGED anyFail
               ELSE /\ tasks' = done(absoluteUrl)
                    /\ returns' = returned(absoluteUrl, assetType, absoluteUrl)
                    /\ anyFail' = TRUE
                    /\ UNCHANGED fs
  /\ UNCHANGED <<pages, web>>

\* return processedCss: to the importing invocation, or to the task.
CssReturn(i) ==
  LET t == tasks[i]
      f == top(t)
      n == Len(t.stack)
      processedCss == applyUrlReplacements(f.text, f.repl) IN
  /\ t.pc = "css"
  /\ f.phase = "urls"
  /\ f.k > Len(urlMatches(f.text))
  /\ IF n > 1
     THEN LET parent == t.stack[n - 1]
              match == importMatches(parent.text)[parent.k] IN
          tasks' = [tasks EXCEPT ![i].stack =
                      Append(SubSeq(t.stack, 1, n - 2),
                             replaced(parent, match, processedCss))]
     ELSE tasks' = [tasks EXCEPT ![i].stack = <<>>, ![i].buf = processedCss,
                                 ![i].pc = IF t.kind = "style" THEN "then"
                                           ELSE "wopen"]
  /\ UNCHANGED <<fs, fetches, pages, web, anyFail, returns>>

----------------------------------------------------------------------------
(* The elements of a document that rewriteAndDownloadAssets rewrites.  A   *)
(* document is taken one element (or one discovered-URL list) at a time.   *)

\* One candidate of a srcset as written: URL, the spaces after it, and the
\* descriptor (ws and desc are both empty when there is no descriptor).
Cand(ref, ws, desc) == [ref |-> ref, ws |-> ws, desc |-> desc]

startsWithSlashNever(ref) == FALSE

\* url.startsWith('/') / src.startsWith('/') / href.startsWith('/')
startsWithSlash(ref) == ref.form \in {"rootrel", "protorel"}

\* parts[1] of s.trim().split(' '): the descriptor after one space, the
\* empty string between two consecutive spaces, undefined without a space.
secondPart(s) == IF s.ws = " " THEN s.desc ELSE ""

candidateKeepsUrl(originalAbsoluteUrl, newUrl, s) ==
  Cand(originalAbsoluteUrl, IF secondPart(s) # "" THEN " " ELSE "", secondPart(s))

\* return newUrl + (parts[1] ? ` ${parts[1]}` : '')
rewrittenCandidate(originalAbsoluteUrl, newUrl, s) ==
  Cand(newUrl, IF secondPart(s) # "" THEN " " ELSE "", secondPart(s))

\* The length of a URL as written (String.prototype.length).
textLength(ref) ==
  (IF ref.form = "abs" THEN 7 ELSE IF ref.form = "protorel" THEN 2 ELSE 0)
  + Len(ref.host) + Len(ref.dir) + Len(ref.name) + Len(ref.ext) + Len(ref.q)

\* replacementsMap.set(key, value): a Map keeps the insertion order of its
\* keys, a key set again keeps its place.
mapSet(map, key, value) ==
  IF \E n \in 1..Len(map) : map[n].from = key
  THEN [n \in 1..Len(map) |->
          IF map[n].from = key THEN [from |-> key, to |-> value] ELSE map[n]]
  ELSE Append(map, [from |-> key, to |-> value])

\* Array.from(map.keys()).sort((a, b) => b.length - a.length): a stable
\* sort, longest key first.
RECURSIVE sortedByLength(_)
sortedByLength(map) ==
  IF map = <<>> THEN <<>>
  ELSE LET longest ==
             CHOOSE n \in 1..Len(map) :
               /\ \A m \in 1..Len(map) :
                    textLength(map[m].from) <= textLength(map[n].from)
               /\ \A m \in 1..(n - 1) :
                    textLength(map[m].from) < textLength(map[n].from)
       IN <<map[longest]>> \o
          sortedByLength(SubSeq(map, 1, longest - 1) \o
                         SubSeq(map, longest + 1, Len(map)))

\* newStyleAttr.replace(new RegExp(`url\((['"]?)${escapeRegex(key)}\1\)`, 'g'),
\* `url('${newLocalUrl}')`) for every key in sorted order: the pattern
\* matches a url(...) whose whole argument is the key.
RECURSIVE applyAttrReplacements(_, _)
applyAttrReplacements(style, sorted) ==
  IF sorted = <<>> THEN style
  ELSE applyAttrReplacements(
         replaceAll(style, UrlTok(Head(sorted).from), UrlTok(Head(sorted).to)),
         Tail(sorted))

\* An element of an SVG sprite that carries an id.
Symbol(id, viewBox, inner) ==
  [k |-> "symbol", ref |-> Ref("text", "", "", id, "", ""),
   viewBox |-> viewBox, inner |-> inner]

\* $svgSprite(`#${fragmentId}`): the elements of the sprite with that id.
symbolElement(svgContent, fragmentId) ==
  SelectSeq(svgContent,
            LAMBDA tok : tok.k = "symbol" /\ tok.ref.name = fragmentId)

\* `<svg class="${originalClass}" role="${originalRole}" viewBox=...>
\* ${innerSvgContent}</svg>`
newSvgElement(parentSvg, symbol) ==
  [kind |-> "svg", class |-> parentSvg.class, role |-> parentSvg.role,
   viewBox |-> symbol.viewBox, inner |-> symbol.inner]

----------------------------------------------------------------------------
(* Anchors: the link classification of lines 725-770.  A path is the       *)
(* sequence of its segments; LIFERAY_PATH_PREFIX is a path, empty when not *)
(* configured.                                                             *)

Href(form, host, path) == [form |-> form, host |-> host, path |-> path]

\* Whether new URL(href, href.startsWith('/') ? baseUrl : undefined) succeeds:
\* without a base only an absolute URL parses, and with one a value that
\* starts with '//' parses when a host follows.
hrefParses(href) ==
  \/ href.form \in {"abs", "rootrel"}
  \/ href.form = "protorel" /\ href.host # ""

\* url.hostname
hostname(href) == IF href.form = "rootrel" THEN OriginHost ELSE href.host

\* potentialPath is set: the URL parsed and its hostname is baseUrl's.
hasPotentialPath(href) == hrefParses(href) /\ hostname(href) = OriginHost

\* potentialPath.startsWith(LIFERAY_PATH_PREFIX)
pathStartsWith(path, prefix) ==
  Len(prefix) <= Len(path) /\ SubSeq(path, 1, Len(prefix)) = prefix

\* potentialPath.substring(LIFERAY_PATH_PREFIX.length)
friendlyUrlPath(path, prefix) == SubSeq(path, Len(prefix) + 1, Len(path))

\* `/pages${path}`
staticRoute(path) == Href("rootrel", "", <<"pages">> \o path)

\* new URL(href, baseUrl).toString() of an href that starts with '/'.
toAbsolute(href) == [href EXCEPT !.form = "abs", !.host = hostname(href)]

\* finalHref, as lines 729-765 compute it.
finalHref(href, prefix, index) ==
  LET inPrefixCase == prefix # <<>> /\ pathStartsWith(href.path, prefix) IN
  IF /\ hasPotentialPath(href) /\ inPrefixCase
     /\ friendlyUrlPath(href.path, prefix) \in index
    THEN staticRoute(friendlyUrlPath(href.path, prefix))
  ELSE IF hasPotentialPath(href) /\ ~inPrefixCase /\ href.path \in index
    THEN staticRoute(href.path)
  ELSE IF startsWithSlash(href)
    THEN toAbsolute(href)
  ELSE href

----------------------------------------------------------------------------
(* The documents of the build.                                             *)

LibJs    == Ref("abs", OriginHost, "/o/", "lib", ".js", "")
IconsSvg == Ref("abs", OriginHost, "/o/", "icons", ".svg", "")

\* A sprite on a host whose name begins with the text of the origin's.
LookalikeSvg == Ref("abs", LookalikeHost, "/o/", "icons", ".svg", "")

\* What the source server serves when documents are rewritten: the
\* stylesheets, and a sprite with one symbol.
DocWeb ==
  Web(<<>>) @@ (IconsSvg :> <<Symbol("ico", "0 0 24 24", "path-ico")>>)
            @@ (LookalikeSvg :> <<Symbol("ico", "0 0 9 9", "path-other")>>)

CandAlphabet ==
  { Cand(ref, sp[1], sp[2]) :
      ref \in { Ref("rootrel", "", "/i/", "a", ".png", ""),
                Ref("abs", OriginHost, "/i/", "b", ".png", "") },
      sp \in { <<"", "">>, <<" ", "2x">>, <<"  ", "2x">> } }

AttrAlphabet ==
  { UrlTok(Ref("rootrel", "", "/i/", "a", ".png", "")),
    UrlTok(Ref("rootrel", "", "/i/", "a", ".png", "?t=1")),
    UrlTok(Ref("abs", ExternalHost, "/x/", "e", ".png", "")),
    UrlTok(Ref("abs", LookalikeHost, "/x/", "e", ".png", "")),
    UrlTok(Ref("bad", "", "", "", "", "")) }

HrefAlphabet ==
  { Href("rootrel", "", <<"about">>),
    Href("rootrel", "", <<"random">>),
    Href("rootrel", "", <<"web", "guest", "about">>),
    Href("abs", OriginHost, <<"about">>),
    Href("abs", OriginHost, <<"random">>),
    Href("abs", ExternalHost, <<"x">>),
    Href("protorel", ExternalHost, <<"x">>),
    Href("protorel", "", <<>>),
    Href("rel", "", <<"docs">>),
    Href("frag", "", <<>>) }

\* The values of LIFERAY_PATH_PREFIX: not configured, or /web/guest.
Prefixes == { <<>>, <<"web", "guest">> }

\* The values of allFriendlyUrlPaths.
Indexes == SUBSET { <<"about">>, <<"web", "guest", "about">> }

\* The style attributes: up to MaxAttrUrls url() values, no value twice.
StyleAttrs ==
  { st \in UNION { [1..n -> AttrAlphabet] : n \in 1..MaxAttrUrls } :
      \A a, b \in 1..Len(st) : a # b => st[a] # st[b] }

\* The contents of an inline <style>: none, a rule, a malformed url() before
\* an origin-relative one, an import of c.css.
StyleTexts ==
  { <<>>,
    <<Rule("r1")>>,
    <<UrlTok(Ref("bad", "", "", "", "", "")),
      UrlTok(Ref("rootrel", "", "/i/", "a", ".png", ""))>>,
    <<ImportTok(Ref("rootrel", "", "/o/", "c", ".css", ""))>> }

ExtCss == Ref("abs", ExternalHost, "/x/", "ext", ".css", "")

ExtJs == Ref("abs", ExternalHost, "/x/", "ext", ".js", "")

\* A <link rel="stylesheet" href> or a <script src>, on the source origin or
\* on another one.
TagAlphabet ==
  { [tag |-> "link", url |-> MainCss], [tag |-> "link", url |-> ExtCss],
    [tag |-> "script", url |-> AppJs], [tag |-> "script", url |-> ExtJs] }

Units ==
  { [kind |-> "img", ref |-> Ref("rootrel", "", "/i/", "a", ".png", "?t=1")],
    [kind |-> "img", ref |-> Ref("rootrel", "", "/", "image", ".png", "")] }
  \cup { [kind |-> "styles", tags |-> tg, removed |-> {}] :
           tg \in UNION { [1..n -> StyleTexts] : n \in 1..MaxStyleTags } }
  \cup { [kind |-> "tags", tags |-> <<tg>>, removed |-> {}] : tg \in TagAlphabet }
  \cup { [kind |-> "source", srcset |-> c] :
           c \in UNION { [1..n -> CandAlphabet] : n \in 1..MaxCands } }
  \cup { [kind |-> "sattr", style |-> st] : st \in StyleAttrs }
  \cup { [kind |-> "use", href |-> h, frag |-> f, class |-> "icon", role |-> "img"] :
           h \in { IconsSvg, Ref("rootrel", "", "/o/", "icons", ".svg", ""),
                    LookalikeSvg,
                    Ref("abs", ExternalHost, "/x/", "icons", ".svg", "") },
           f \in { "", "ico", "nope" } }
  \cup { [kind |-> "scripts", urls |-> <<AppJs, LibJs>>] }
  \cup { [kind |-> "a", href |-> h, prefix |-> pre, index |-> ix] :
           h \in HrefAlphabet, pre \in Prefixes, ix \in Indexes }

\* The request handler of getLiferayFullPageHtml: of the stylesheets
\* (scripts) the browser requests, those whose URL starts with LIFERAY_HOST
\* are recorded.
discoveredUrls(tags, tag) ==
  LET urls == [n \in 1..Len(tags) |-> tags[n]]
      wanted(t) == t.tag = tag /\ startsWithLiferayHost(t.url)
      sel == SelectSeq(urls, wanted) IN
  [n \in 1..Len(sel) |-> sel[n].url]

isAttrDownloadUnparsed(tok) ==
  /\ isUrlMatch(tok)
  /\ canParse(tok.ref) => startsWithLiferayHost(resolve(tok.ref, LIFERAY_HOST))

\* A url() of a style attribute for which downloadAndRewriteAsset is called.
isAttrDownload(tok) ==
  /\ isUrlMatch(tok) /\ canParse(tok.ref)
  /\ startsWithLiferayHost(resolve(tok.ref, LIFERAY_HOST))

isCandDownload(s) == startsWithSlash(s.ref)

\* The downloadAndRewriteAsset calls an element starts, in the order in
\* which they are started.
downloads(unit) ==
  CASE unit.kind = "img" ->
         IF startsWithSlash(unit.ref)
         THEN <<[kind |-> "img", ref |-> unit.ref]>> ELSE <<>>
    [] unit.kind = "source" ->
         LET sel == SelectSeq(unit.srcset, isCandDownload) IN
         [n \in 1..Len(sel) |-> [kind |-> "cand", ref |-> sel[n].ref]]
    [] unit.kind = "sattr" ->
         LET sel == SelectSeq(unit.style, isAttrDownload) IN
         [n \in 1..Len(sel) |-> [kind |-> "surl", ref |-> sel[n].ref]]
    [] unit.kind = "use" ->
         IF startsWithLiferayHost(unit.href)
         THEN <<[kind |-> "use", ref |-> unit.href]>> ELSE <<>>
    [] unit.kind = "scripts" ->
         [n \in 1..Len(unit.urls) |-> [kind |-> "script", ref |-> unit.urls[n]]]
    [] unit.kind = "tags" ->
         LET css == discoveredUrls(unit.tags, "link")
             js  == discoveredUrls(unit.tags, "script") IN
         [n \in 1..Len(css) |-> [kind |-> "sheet", ref |-> css[n]]]
         \o [n \in 1..Len(js) |-> [kind |-> "script", ref |-> js[n]]]
    [] OTHER -> <<>>

\* if (cssContent): an empty <style> is not processed.
hasContentAlways(cssContent) == TRUE

hasContent(cssContent) == cssContent # <<>>

\* processAndRewriteCssUrls(cssContent, baseUrl) started for <style> n.
NewStyleTask(p, cssContent, n) ==
  [NewTask(p, [kind |-> "style", ref |-> NoRef], {}) EXCEPT
     !.pc = "css", !.input = cssContent, !.el = n,
     !.stack = <<Frame(cssContent, LIFERAY_HOST)>>]

\* The indexes of the <style> elements that are processed, in order.
styleTasks(tags) ==
  LET RECURSIVE from(_)
      from(n) == IF n > Len(tags) THEN <<>>
                 ELSE (IF hasContent(tags[n]) THEN <<n>> ELSE <<>>) \o from(n + 1)
  IN from(1)

\* The tasks an element starts.
startedTasks(p, unit) ==
  IF unit.kind = "styles"
  THEN [k \in 1..Len(styleTasks(unit.tags)) |->
          NewStyleTask(p, unit.tags[styleTasks(unit.tags)[k]],
                       styleTasks(unit.tags)[k])]
  ELSE [n \in 1..Len(downloads(unit)) |-> NewTask(p, downloads(unit)[n], {})]

\* The element after the synchronous part: only an anchor is rewritten there.
afterSyncPart(unit) ==
  CASE unit.kind = "a" ->
         [unit EXCEPT !.href = finalHref(unit.href, unit.prefix, unit.index)]
    [] unit.kind = "tags" ->
         \* $('link[rel="stylesheet"]').remove(); $('script[src]').remove()
         [unit EXCEPT !.removed = 1..Len(unit.tags)]
    [] OTHER -> unit

\* The k-th task of page p, in start order.
nthTask(p, k) ==
  CHOOSE i \in TasksOf(tasks, p) :
    Cardinality({j \in TasksOf(tasks, p) : j <= i}) = k

\* finalHref = new URL(href, baseUrl).toString() outside the try block, for
\* an href that starts with '/' and that new URL() rejects: the callback of
\* $('a').each throws and rewriteAndDownloadAssets rejects.
syncThrows(unit) ==
  /\ unit.kind = "a"
  /\ startsWithSlash(unit.href) /\ ~hrefParses(unit.href)

\* rewriteAndDownloadAssets on a document with one element: the synchronous
\* part.  An element promise (srcset, style attribute) is pending after it
\* even when the element starts no download.
DocStart(p) ==
  /\ tasks = <<>>
  /\ pages[p].status = "idle"
  /\ \A q \in Pages : pages[q].status \in {"idle", "error"}
  /\ \E unit \in Units :
       LET ts == startedTasks(p, unit)
           pg == [pages[p] EXCEPT !.status = "running", !.src = unit,
                                  !.dom = afterSyncPart(unit)]
       IN IF syncThrows(unit)
          THEN /\ tasks' = tasks
               /\ pages' = [pages EXCEPT ![p].status = "threw",
                                         ![p].src = unit, ![p].dom = unit]
          ELSE /\ tasks' = ts
               /\ pages' = [pages EXCEPT ![p] =
                              IF unit.kind \in {"source", "sattr"}
                              THEN pg ELSE joinPage(pg, p, ts)]
  /\ UNCHANGED <<fs, fetches, web, anyFail, returns>>

\* Promise.all(rewrittenSrcsetPromises).then(rewrittenParts =>
\*   $(source).attr('srcset', rewrittenParts.join(', ')))
SrcsetThen(p) ==
  LET pg == pages[p]
      srcset == pg.src.srcset
      taskOf(n) ==
        nthTask(p, Cardinality({m \in 1..n : isCandDownload(srcset[m])}))
      rewrittenParts ==
        [n \in 1..Len(srcset) |->
           IF isCandDownload(srcset[n])
           THEN rewrittenCandidate(tasks[taskOf(n)].url, tasks[taskOf(n)].res,
                                   srcset[n])
           ELSE srcset[n]]
      ts == [i \in 1..Len(tasks) |->
               IF tasks[i].page = p THEN [tasks[i] EXCEPT !.pc = "ok"]
               ELSE tasks[i]]
  IN
  /\ pg.status = "running" /\ pg.src.kind = "source"
  /\ \A i \in TasksOf(tasks, p) : tasks[i].pc = "then"
  /\ tasks' = ts
  /\ pages' = [pages EXCEPT ![p] =
                 joinPage([pg EXCEPT !.dom.srcset = rewrittenParts], p, ts)]
  /\ UNCHANGED <<fs, fetches, web, anyFail, returns>>

\* .then(newLocalUrl => replacementsMap.set(originalUrlInAttr, newLocalUrl))
SurlThen(i) ==
  LET t == tasks[i] IN
  /\ t.pc = "then" /\ t.kind = "surl"
  /\ tasks' = [tasks EXCEPT ![i].pc = "set"]
  /\ pages' = [pages EXCEPT ![t.page].map = mapSet(@, t.attr, t.res)]
  /\ UNCHANGED <<fs, fetches, web, anyFail, returns>>

\* Promise.all(currentElementAssetPromises).then(() => ... $(el).attr('style',
\* newStyleAttr))
StyleAttrThen(p) ==
  LET pg == pages[p]
      newStyleAttr == applyAttrReplacements(pg.src.style, sortedByLength(pg.map))
      ts == [i \in 1..Len(tasks) |->
               IF tasks[i].page = p THEN [tasks[i] EXCEPT !.pc = "ok"]
               ELSE tasks[i]]
  IN
  /\ pg.status = "running" /\ pg.src.kind = "sattr"
  /\ \A i \in TasksOf(tasks, p) : tasks[i].pc = "set"
  /\ tasks' = ts
  /\ pages' = [pages EXCEPT ![p] =
                 joinPage([pg EXCEPT !.dom.style = newStyleAttr], p, ts)]
  /\ UNCHANGED <<fs, fetches, web, anyFail, returns>>

buildAborted(pgs, p) == [q \in Pages |-> [pgs[q] EXCEPT !.status = "error"]]

\* getStaticProps: catch (err) { return { props: { pageData: null, error } } }
errorResult(pgs, p) == [pgs EXCEPT ![p].status = "error"]

\* getLiferayFullPageHtml fails for page p (launch, navigation or content
\* throws): it logs, closes the browser and rethrows; the catch of
\* getLiferayScrapedContent logs and rethrows before rewriteAndDownloadAssets
\* is called; getStaticProps catches and returns the error props.
RenderFailure(p) ==
  /\ pages[p].status = "idle"
  /\ pages' = errorResult(pages, p)
  /\ UNCHANGED <<fs, fetches, tasks, web, anyFail, returns>>

\* processAndRewriteCssUrls(cssContent, baseUrl).then(newCssContent => {
\*   extractedStyleContents.push(newCssContent); $(styleTag).remove() })
StyleThen(i) ==
  LET t == tasks[i]
      p == t.page
      ts == [tasks EXCEPT ![i].pc = "ok"]
      pg == [pages[p] EXCEPT !.extractedStyles = Append(@, t.buf),
                             !.dom.removed = @ \cup {t.el}] IN
  /\ t.pc = "then" /\ t.kind = "style"
  /\ tasks' = ts
  /\ pages' = [pages EXCEPT ![p] = joinPage(pg, p, ts)]
  /\ UNCHANGED <<fs, fetches, web, anyFail, returns>>

\* The sprite is downloaded: without a fragment id nothing more is done,
\* with one the local file is read next.
UseThen(i) ==
  LET t == tasks[i]
      p == t.page
      ts == [tasks EXCEPT ![i].pc =
               IF pages[p].src.frag # "" THEN "sprite" ELSE "ok"] IN
  /\ t.pc = "then" /\ t.kind = "use"
  /\ tasks' = ts
  /\ pages' = [pages EXCEPT ![p] = joinPage(pages[p], p, ts)]
  /\ UNCHANGED <<fs, fetches, web, anyFail, returns>>

\* svgContent = await fs.readFile(path.join(cwd, 'public',
\* localSvgSpritePath)): a failing read is caught and logged; when the
\* symbol is found the enclosing <svg> is replaced.
UseRead(i) ==
  LET t == tasks[i]
      p == t.page
      pg == pages[p]
      file == publicJoin(t.res)
      found == IF fileExists(file)
               THEN symbolElement(fs[file], pg.src.frag) ELSE <<>>
      ts == [tasks EXCEPT ![i].pc = "ok"] IN
  /\ t.pc = "sprite"
  /\ tasks' = ts
  /\ pages' = [pages EXCEPT ![p] =
                 joinPage(IF found # <<>> /\ pg.dom.kind = "use"
                          THEN [pg EXCEPT !.dom = newSvgElement(pg.dom, found[1])]
                          ELSE pg, p, ts)]
  /\ UNCHANGED <<fs, fetches, web, anyFail, returns>>

----------------------------------------------------------------------------
(* getLiferayFullPageHtml(pageUrl), lines 420-464, for page p.  Each await *)
(* either resolves or throws; a throw is caught, logged and rethrown, and  *)
(* the finally block runs on both paths.                                   *)

\* What the browser requests while it loads the page.
RequestAlphabet ==
  { [type |-> "stylesheet", url |-> MainCss],
    [type |-> "stylesheet", url |-> ExtCss],
    [type |-> "script", url |-> AppJs],
    [type |-> "image", url |-> ImgT] }

\* Set.prototype.add: a Set keeps insertion order and no value twice.
setAdd(set, x) ==
  IF \E n \in 1..Len(set) : set[n] = x THEN set ELSE Append(set, x)

isRecordedAnyHost(request, type) == request.type = type

\* resourceType === type && url.startsWith(LIFERAY_HOST)
isRecorded(request, type) ==
  request.type = type /\ startsWithLiferayHost(request.url)

\* page.on('request', request => { ...; request.continue() })
onRequest(r, request) ==
  [r EXCEPT
     !.discoveredCssUrls =
        IF isRecorded(request, "stylesheet") THEN setAdd(@, request.url) ELSE @,
     !.discoveredJsUrls =
        IF ~isRecorded(request, "stylesheet") /\ isRecorded(request, "script")
        THEN setAdd(@, request.url) ELSE @,
     !.requests = Append(@, [type |-> request.type, url |-> request.url,
                             continued |-> 1])]

\* The await resolves and the call goes on to next, or it throws: the
\* error is caught, logged and rethrown, and the finally block runs.
resolvesOrThrows(r, next, onOk) ==
  { [onOk EXCEPT !.pc = next],
    [r EXCEPT !.pc = "finally", !.out = [kind |-> "throw"]] }

\* browser = await puppeteer.launch(...)
Launch(p) ==
  LET r == pages[p].render IN
  /\ r.pc = "launch"
  /\ \E n \in resolvesOrThrows(r, "newPage", [r EXCEPT !.browser = "open"]) :
       pages' = [pages EXCEPT ![p].render = n]
  /\ UNCHANGED <<fs, fetches, tasks, web, anyFail, returns>>

\* page = await browser.newPage(); await page.setExtraHTTPHeaders(...)
BrowserNewPage(p) ==
  LET r == pages[p].render IN
  /\ r.pc = "newPage"
  /\ \E n \in resolvesOrThrows(r, "intercept", r) :
       pages' = [pages EXCEPT ![p].render = n]
  /\ UNCHANGED <<fs, fetches, tasks, web, anyFail, returns>>

\* await page.setRequestInterception(true); page.on('request', ...)
SetRequestInterception(p) ==
  LET r == pages[p].render IN
  /\ r.pc = "intercept"
  /\ \E n \in resolvesOrThrows(r, "goto", r) :
       pages' = [pages EXCEPT ![p].render = n]
  /\ UNCHANGED <<fs, fetches, tasks, web, anyFail, returns>>

\* The browser issues a request while the handler is installed and the
\* browser is open: the handler runs to its end.
Request(p) ==
  LET r == pages[p].render IN
  /\ r.pc \in {"goto", "content", "finally"} /\ r.browser = "open"
  /\ Len(r.requests) < MaxRequests
  /\ \E request \in RequestAlphabet :
       pages' = [pages EXCEPT ![p].render = onRequest(r, request)]
  /\ UNCHANGED <<fs, fetches, tasks, web, anyFail, returns>>

\* await page.goto(pageUrl, { waitUntil: 'networkidle0' })
Goto(p) ==
  LET r == pages[p].render IN
  /\ r.pc = "goto"
  /\ \E n \in resolvesOrThrows(r, "content", r) :
       pages' = [pages EXCEPT ![p].render = n]
  /\ UNCHANGED <<fs, fetches, tasks, web, anyFail, returns>>

\* fullHtml = await page.content(); return { html, Array.from(...) }
Content(p) ==
  LET r == pages[p].render
      result == [kind |-> "return",
                 discoveredCssUrls |-> r.discoveredCssUrls,
                 discoveredJsUrls |-> r.discoveredJsUrls] IN
  /\ r.pc = "content"
  /\ \E n \in resolvesOrThrows(r, "finally", [r EXCEPT !.out = result]) :
       pages' = [pages EXCEPT ![p].render = n]
  /\ UNCHANGED <<fs, fetches, tasks, web, anyFail, returns>>

\* finally { if (browser) await browser.close() }, then the call ends.
Finally(p) ==
  LET r == pages[p].render IN
  /\ r.pc = "finally"
  /\ pages' = [pages EXCEPT ![p].render =
                 [r EXCEPT !.pc = "done",
                           !.browser = IF @ = "open" THEN "closed" ELSE @]]
  /\ UNCHANGED <<fs, fetches, tasks, web, anyFail, returns>>

----------------------------------------------------------------------------
(* The specification.                                                     *)

Init ==
  /\ fs = << >>
  /\ fetches = << >>
  /\ tasks = << >>
  /\ pages = [p \in Pages |-> NewPage]
  /\ web \in {Web(text) : text \in Texts}
  /\ anyFail = FALSE
  /\ returns = {}

Next ==
  \/ \E p \in Pages : StartRewrite(p)
  \/ \E i \in 1..Len(tasks) : Access(i)
  \/ \E i \in 1..Len(tasks) : Response(i)
  \/ \E i \in 1..Len(tasks) : Open(i)
  \/ \E i \in 1..Len(tasks) : Data(i)
  \/ \E i \in 1..Len(tasks) : Then(i)
  \/ \E i \in 1..Len(tasks) : Read(i)
  \/ \E i \in 1..Len(tasks) : CssImport(i)
  \/ \E i \in 1..Len(tasks) : CssInline(i)
  \/ \E i \in 1..Len(tasks) : CssUrl(i)
  \/ \E i \in 1..Len(tasks) : CssReturn(i)
  \/ \E i \in 1..Len(tasks) : WOpen(i)
  \/ \E i \in 1..Len(tasks) : WData(i)

Spec == Init /\ [][Next]_vars

\* The rewrite of one document element at a time.
DocInit ==
  /\ fs = << >>
  /\ fetches = << >>
  /\ tasks = << >>
  /\ pages = [p \in Pages |-> NewPage]
  /\ web = DocWeb
  /\ anyFail = FALSE
  /\ returns = {}

DocNext ==
  \/ \E p \in Pages : DocStart(p)
  \/ \E i \in 1..Len(tasks) : Access(i)
  \/ \E i \in 1..Len(tasks) : Response(i)
  \/ \E i \in 1..Len(tasks) : Open(i)
  \/ \E i \in 1..Len(tasks) : Data(i)
  \/ \E i \in 1..Len(tasks) : Then(i)
  \/ \E p \in Pages : SrcsetThen(p)
  \/ \E i \in 1..Len(tasks) : SurlThen(i)
  \/ \E p \in Pages : StyleAttrThen(p)
  \/ \E i \in 1..Len(tasks) : UseThen(i)
  \/ \E i \in 1..Len(tasks) : UseRead(i)
  \/ \E i \in 1..Len(tasks) : Read(i)
  \/ \E i \in 1..Len(tasks) : CssImport(i)
  \/ \E i \in 1..Len(tasks) : CssInline(i)
  \/ \E i \in 1..Len(tasks) : CssUrl(i)
  \/ \E i \in 1..Len(tasks) : CssReturn(i)
  \/ \E i \in 1..Len(tasks) : WOpen(i)
  \/ \E i \in 1..Len(tasks) : WData(i)
  \/ \E i \in 1..Len(tasks) : StyleThen(i)
  \/ \E p \in Pages : RenderFailure(p)

DocSpec == DocInit /\ [][DocNext]_vars

\* The Render Driver alone, for the pages of the build.
RenderNext ==
  \/ \E p \in Pages : Launch(p)
  \/ \E p \in Pages : BrowserNewPage(p)
  \/ \E p \in Pages : SetRequestInterception(p)
  \/ \E p \in Pages : Request(p)
  \/ \E p \in Pages : Goto(p)
  \/ \E p \in Pages : Content(p)
  \/ \E p \in Pages : Finally(p)

RenderSpec == DocInit /\ [][RenderNext]_vars

----------------------------------------------------------------------------
(* Properties *)

TaskIds == 1..Len(tasks)

\* Two tasks that call downloadAndRewriteAsset with the same arguments.
sameCall(i, j) ==
  tasks[i].url = tasks[j].url /\ tasks[i].kind = tasks[j].kind

\* A value of the form /assets/<type>/<hash><ext>.
isLocalPath(r) == r.form = "rootrel" /\ r.hashOf # <<>>

\* A discovered-stylesheet task whose processed text is ready or written.
processedSheet(t) == t.kind = "sheet" /\ t.pc \in {"wopen", "wdata", "ok"}

\* C1: concurrent downloadAndRewriteAsset calls with the same URL issue at
\* most one network fetch of it between them, in every interleaving (no
\* fetch failing).
C1_AtMostOneFetch ==
  ~anyFail =>
    \A i, j \in TaskIds :
      (i # j /\ sameCall(i, j)) => tasks[i].nfetch + tasks[j].nfetch <= 1

\* C2 (as stated): two calls in sequence with the same URL and type perform
\* exactly one fetch in total and both return the same local path.
C2_ExactlyOneFetch ==
  \A i \in TaskIds : \A j \in tasks[i].after :
    (sameCall(i, j) /\ tasks[i].pc \in Returned) =>
      /\ tasks[i].nfetch + tasks[j].nfetch = 1
      /\ tasks[i].res = tasks[j].res
      /\ isLocalPath(tasks[i].res)

\* C2 (amended): when the first of two calls in sequence returned the local
\* path, the second returns the same path without fetching, so that the two
\* perform at most one fetch in total.
C2_SecondCallHitsCache ==
  \A i \in TaskIds : \A j \in tasks[i].after :
    (sameCall(i, j) /\ tasks[i].pc \in Returned /\ isLocalPath(tasks[j].res)) =>
      /\ tasks[i].res = tasks[j].res
      /\ tasks[i].nfetch = 0
      /\ tasks[i].nfetch + tasks[j].nfetch <= 1

\* Two calls in sequence, the first of which fetched and returned the path.
C2_Witness ==
  \E i \in TaskIds : \E j \in tasks[i].after :
    /\ sameCall(i, j) /\ tasks[i].pc \in Returned
    /\ tasks[j].nfetch = 1 /\ isLocalPath(tasks[j].res)
    /\ tasks[i].res = tasks[j].res /\ tasks[i].nfetch = 0

\* C3 (as stated): every value returned for one source URL is the same
\* single local path, whatever the call site.
C3_OnePathPerUrl ==
  \A r1, r2 \in returns :
    r1.url = r2.url => (r1.res = r2.res /\ isLocalPath(r1.res))

\* C3 (amended): every value returned for one source URL and asset type is
\* either the original URL itself (the fetch failed) or one single local
\* path of that type's directory.
C3_OnePathPerUrlAndType ==
  \A r1, r2 \in returns :
    (r1.url = r2.url /\ r1.type = r2.type) =>
      /\ r1.res = r1.url \/ isLocalPath(r1.res)
      /\ isLocalPath(r1.res) => r1.res.dir = assetDir(r1.type)
      /\ (isLocalPath(r1.res) /\ isLocalPath(r2.res)) => r1.res = r2.res

\* One URL localized from two call sites, an <img> and a stylesheet's
\* url(), in a build whose rewrites have all returned.
C3_Witness ==
  \E r1, r2 \in returns :
    /\ r1.url = r2.url /\ r1.type # r2.type
    /\ isLocalPath(r1.res) /\ isLocalPath(r2.res)
    /\ \A p \in Pages : pages[p].status \in {"idle", "returned"}

\* C4: two tasks racing on the same discovered stylesheet write back the
\* same bytes, in every interleaving; stated for the interleavings in which
\* no fetch fails and neither task reads the file while it is truncated.
C4_SameBytes ==
  ~anyFail =>
    \A i, j \in TaskIds :
      (/\ sameCall(i, j)
       /\ processedSheet(tasks[i]) /\ processedSheet(tasks[j])
       /\ tasks[i].buf # <<>> /\ tasks[j].buf # <<>>)
        => tasks[i].buf = tasks[j].buf

\* C5: a call whose fetch fails (non-success status or thrown error)
\* returns the original URL, never rejects, and neither it nor its task
\* creates or writes a file.
C5_FailureDegrades ==
  [][\A i \in TaskIds :
       tasks'[i].resp \in {"notok", "throw"} =>
         /\ tasks'[i].res = tasks'[i].url
         /\ tasks'[i].pc \in {"then", "read", "ok", "rejected"}
         /\ tasks'[i] # tasks[i] => fs' = fs]_vars

\* A failed call has returned and its file does not exist.
C5_Witness ==
  \E i \in TaskIds :
    /\ tasks[i].resp \in {"notok", "throw"}
    /\ tasks[i].pc \in Settled
    /\ tasks[i].res = tasks[i].url
    /\ localFilePath(tasks[i].url, assetTypeOf(tasks[i].kind)) \notin DOMAIN fs

\* C6: no failing download makes rewriteAndDownloadAssets fail.
C6_NeverFails == \A p \in Pages : pages[p].status # "threw"

\* C7: when rewriteAndDownloadAssets has returned or thrown, every task it
\* started has settled.
C7_AllSettledAtReturn ==
  \A p \in Pages :
    pages[p].status \in {"returned", "threw"} =>
      \A i \in TasksOf(tasks, p) : tasks[i].pc \in Settled

\* C8: an import whose resolved URL is an ancestor being resolved in the
\* recursion is dropped: no URL is being resolved twice in one recursion.
C8_AncestorImportDropped ==
  \A i \in TaskIds :
    \A a, b \in 1..Len(tasks[i].stack) :
      a < b => tasks[i].stack[a].base # tasks[i].stack[b].base

\* An @import of text that resolves to the base URL itself.
isSelfImport(tok, base) ==
  tok.k = "import" /\ canParse(tok.ref) /\ resolve(tok.ref, base) = base

\* An @import that is fetched and spliced in.
isSplicedImport(tok, base) ==
  /\ tok.k = "import" /\ canParse(tok.ref)
  /\ startsWithLiferayHost(resolve(tok.ref, base))
  /\ resolve(tok.ref, base) # base

\* C9: a stylesheet that imports itself is rewritten with that directive
\* removed and not fetched for it; every other rule and directive keeps
\* its place (url() references stay url() references).
C9_SelfImportDropped ==
  \A i \in TaskIds :
    LET t == tasks[i]
        text == web[t.url]
        notSelf(tok) == ~isSelfImport(tok, t.url)
        rest == SelectSeq(text, notSelf) IN
    (/\ Len(tasks) = 1 /\ processedSheet(t)
     /\ \E n \in 1..Len(text) : isSelfImport(text[n], t.url)
     /\ \A n \in 1..Len(text) : ~isSplicedImport(text[n], t.url)) =>
      /\ fetchCount(t.url) = t.nfetch
      /\ Len(t.buf) = Len(rest)
      /\ \A n \in 1..Len(rest) :
           IF rest[n].k = "url" THEN t.buf[n].k = "url" ELSE t.buf[n] = rest[n]

\* A self-importing stylesheet with another rule has been rewritten.
C9_Witness ==
  \E i \in TaskIds :
    LET t == tasks[i] IN
    /\ processedSheet(t)
    /\ \E n \in 1..Len(web[t.url]) : isSelfImport(web[t.url][n], t.url)
    /\ t.buf = <<Rule("r1")>>
    /\ fetchCount(t.url) = 1

\* The url() references of the source's stylesheets that resolve to the
\* source origin, as the local paths the Localizer returns for them.
ExpectedLocal ==
  UNION { { publicPath(resolve(web[b][n].ref, b), cssAssetType(web[b][n].ref)) :
              n \in { m \in 1..Len(web[b]) :
                        /\ isUrlMatch(web[b][m]) /\ canParse(web[b][m].ref)
                        /\ startsWithLiferayHost(resolve(web[b][m].ref, b)) } } :
          b \in DOMAIN web }

\* C10: when every fetch succeeds, every url() reference of the output,
\* those of spliced imports included, is the local path of the reference it
\* stands for, or a reference that does not resolve to the source origin.
C10_SelfContained ==
  \A i \in TaskIds :
    LET t == tasks[i] IN
    (Len(tasks) = 1 /\ processedSheet(t) /\ ~anyFail) =>
      \A n \in 1..Len(t.buf) :
        t.buf[n].k = "url" =>
          \/ t.buf[n].ref \in ExpectedLocal
          \/ ~canParse(t.buf[n].ref)
          \/ ~startsWithLiferayHost(resolve(t.buf[n].ref, t.url))

\* Whether a reference of a text with base URL base resolves to the source
\* origin, that is, to a URL whose host is the source origin's host.
isOriginBound(ref, base) ==
  canParse(ref) /\ ref.form # "data" /\ resolve(ref, base).host = OriginHost

\* C11: processing a discovered stylesheet whose cached file was already
\* written and rewritten by an earlier task leaves the file as that first
\* processing produced it (no fetch failing).
C11_CachedSheetUnchanged ==
  ~anyFail =>
    \A i, j \in TaskIds :
      (/\ sameCall(i, j) /\ tasks[j].kind = "sheet" /\ tasks[j].pc = "ok"
       /\ tasks[j].nfetch = 1 /\ tasks[i].nfetch = 0
       /\ processedSheet(tasks[i])
       /\ tasks[i].input = tasks[j].buf)
        => tasks[i].buf = tasks[i].input

\* C12: a stylesheet text without @import and without url() reference
\* resolving to the source origin is returned unchanged, and nothing is
\* fetched for it.
C12_NoOpInvariance ==
  \A i \in TaskIds :
    LET t == tasks[i] IN
    (/\ Len(tasks) = 1 /\ processedSheet(t) /\ t.nfetch = 1
     /\ \A n \in 1..Len(t.input) :
          /\ t.input[n].k # "import"
          /\ t.input[n].k = "url" => ~isOriginBound(t.input[n].ref, t.url)) =>
      /\ t.buf = t.input
      /\ DOMAIN fetches \subseteq {t.url}

\* C13: in a stylesheet that also holds origin-bound references, every
\* @import and url() reference that resolves outside the source origin, and
\* every data-URI reference, is in the output as it is in the input, and is
\* not fetched.
C13_NonOriginPassedThrough ==
  \A i \in TaskIds :
    LET t == tasks[i] IN
    (/\ Len(tasks) = 1 /\ processedSheet(t) /\ t.nfetch = 1
     /\ \E n \in 1..Len(t.input) :
          t.input[n].k \in {"import", "url"} /\ isOriginBound(t.input[n].ref, t.url)) =>
      \A n \in 1..Len(t.input) :
        (/\ t.input[n].k \in {"import", "url"}
         /\ canParse(t.input[n].ref)
         /\ ~isOriginBound(t.input[n].ref, t.url)) =>
          /\ \E m \in 1..Len(t.buf) : t.buf[m] = t.input[n]
          /\ resolve(t.input[n].ref, t.url) \notin DOMAIN fetches

----------------------------------------------------------------------------
(* Properties of the document rewrite (DocSpec).                           *)

\* The pages whose rewrite of an element of the given kinds has returned.
Rewritten(kinds) ==
  {p \in Pages : pages[p].status = "returned" /\ pages[p].src.kind \in kinds}

\* The rewrite of p started at least one localization and all succeeded.
allLocalized(p) ==
  /\ TasksOf(tasks, p) # {}
  /\ \A i \in TasksOf(tasks, p) : isLocalPath(tasks[i].res)

\* A reference that names the source origin's host.
carriesOriginHost(ref) == ref.host = OriginHost

\* The references the rewritten element of page p holds.
elementRefs(p) ==
  LET dom == pages[p].dom IN
  CASE dom.kind = "img"    -> {tasks[i].attr : i \in TasksOf(tasks, p)}
    [] dom.kind = "source" -> {dom.srcset[n].ref : n \in 1..Len(dom.srcset)}
    [] dom.kind = "sattr"  -> {dom.style[n].ref : n \in 1..Len(dom.style)}
    [] dom.kind = "use"    -> {dom.href}
    [] OTHER               -> {}

\* The task of page p that localizes the n-th candidate of its srcset.
candTask(p, n) ==
  nthTask(p, Cardinality({m \in 1..n : isCandDownload(pages[p].src.srcset[m])}))

C15_SideListsInSourceOrder ==
  \A p \in Rewritten({"scripts"}) :
    LET paths == pages[p].extractedScriptPaths
        urls == pages[p].src.urls IN
    allLocalized(p) =>
    /\ Len(paths) = Len(urls)
    /\ \A k \in 1..Len(urls) :
         /\ tasks[nthTask(p, k)].url = urls[k]
         /\ paths[k] = tasks[nthTask(p, k)].res

\* C16: a rewritten srcset has the candidates of the original, in their
\* order, each with its descriptor; only the URL of an origin-relative
\* candidate is replaced, by what the Localizer returned for it.
C16_SrcsetPreserved ==
  \A p \in Rewritten({"source"}) :
    LET src == pages[p].src.srcset
        out == pages[p].dom.srcset IN
    /\ Len(out) = Len(src)
    /\ \A n \in 1..Len(src) :
         /\ out[n].desc = src[n].desc
         /\ out[n].ref = IF isCandDownload(src[n])
                         THEN tasks[candTask(p, n)].res ELSE src[n].ref

\* Whether the text of URL a is a proper prefix of the text of URL b.
isTextPrefix(a, b) ==
  /\ a # b
  /\ [b EXCEPT !.q = ""] = a

\* C17: in a style attribute with two origin-bound url() references of which
\* one is a prefix of the other, each is replaced by the local path of its
\* own URL, and the url() values outside the source origin are untouched.
C17_LongestMatchSafe ==
  \A p \in Rewritten({"sattr"}) :
    LET src == pages[p].src.style
        out == pages[p].dom.style IN
    (/\ \A i \in TasksOf(tasks, p) : isLocalPath(tasks[i].res)
     /\ \E a, b \in 1..Len(src) :
          /\ isOriginBound(src[a].ref, LIFERAY_HOST)
          /\ isOriginBound(src[b].ref, LIFERAY_HOST)
          /\ isTextPrefix(src[a].ref, src[b].ref)) =>
      \A n \in 1..Len(src) :
        out[n] = IF isOriginBound(src[n].ref, LIFERAY_HOST)
                 THEN UrlTok(publicPath(resolve(src[n].ref, LIFERAY_HOST), "images"))
                 ELSE src[n]

\* The index entries an anchor's path matches: the path as it is, and the
\* path with the configured prefix stripped.
matchedPaths(a) ==
  {path \in a.index :
     \/ path = a.href.path
     \/ /\ a.prefix # <<>> /\ pathStartsWith(a.href.path, a.prefix)
        /\ path = friendlyUrlPath(a.href.path, a.prefix)}

\* C18: an anchor that resolves to the source origin's host and whose path,
\* as it is or with the prefix stripped, is in the friendly-path index is
\* rewritten to /pages followed by the matched path.
C18_InternalLinkToStaticRoute ==
  \A p \in Rewritten({"a"}) :
    LET a == pages[p].src IN
    (/\ hrefParses(a.href) /\ hostname(a.href) = OriginHost
     /\ matchedPaths(a) # {}) =>
      pages[p].dom.href \in {staticRoute(path) : path \in matchedPaths(a)}

\* C19: an anchor that targets the source origin (origin-relative, relative
\* or absolute on the same host) and matches no index entry is rewritten to
\* an absolute URL on the source origin.
C19_UnmatchedLinkAbsolute ==
  \A p \in Rewritten({"a"}) :
    LET a == pages[p].src IN
    (/\ \/ a.href.form \in {"rootrel", "rel"}
        \/ a.href.form \in {"abs", "protorel"} /\ a.href.host = OriginHost
     /\ matchedPaths(a) = {}) =>
      /\ pages[p].dom.href.form = "abs"
      /\ pages[p].dom.href.host = OriginHost

\* C20: an anchor whose resolved host is not the source origin's host keeps
\* its href, whatever the form of the href.
C20_ExternalLinkUnchanged ==
  \A p \in Rewritten({"a"}) :
    LET a == pages[p].src IN
    (hrefParses(a.href) /\ hostname(a.href) # OriginHost) =>
      pages[p].dom.href = a.href

\* C21: with a prefix configured and the path of the link starting with it,
\* the link is internal when the stripped path or the unstripped path is in
\* the friendly-path index.
C21_BothPathsTested ==
  \A p \in Rewritten({"a"}) :
    LET a == pages[p].src IN
    (/\ hasPotentialPath(a.href)
     /\ a.prefix # <<>> /\ pathStartsWith(a.href.path, a.prefix)
     /\ \/ friendlyUrlPath(a.href.path, a.prefix) \in a.index
        \/ a.href.path \in a.index) =>
      /\ pages[p].dom.href.form = "rootrel"
      /\ pathStartsWith(pages[p].dom.href.path, <<"pages">>)

\* The symbols of the sprite a use element names, as the source serves it.
namedSymbols(use) ==
  symbolElement(body(resolve(use.href, LIFERAY_HOST)), use.frag)

\* C22: an svg whose use names, by an absolute or an origin-relative URL, a
\* sprite of the source origin and an element of it is replaced by a
\* self-contained svg with that element's inner markup and viewBox and the
\* original class and role (the download succeeding).
C22_SpriteInlined ==
  \A p \in Rewritten({"use"}) :
    LET use == pages[p].src IN
    (/\ ~anyFail
     /\ isOriginBound(use.href, LIFERAY_HOST)
     /\ namedSymbols(use) # <<>>) =>
      pages[p].dom =
        [kind |-> "svg", class |-> use.class, role |-> use.role,
         viewBox |-> namedSymbols(use)[1].viewBox,
         inner |-> namedSymbols(use)[1].inner]

\* C23: a sprite reference is left as it is, and the rewrite does not fail,
\* when the sprite is off-origin (nothing is fetched then), when there is no
\* fragment, when the fragment names no element, or when the sprite could
\* not be downloaded.
C23_SpriteLeftUntouched ==
  \A p \in Pages :
    LET use == pages[p].src IN
    use.kind = "use" =>
      /\ pages[p].status # "threw"
      /\ (pages[p].status = "returned" /\ ~isOriginBound(use.href, LIFERAY_HOST)) =>
           pages[p].dom = use /\ DOMAIN fetches = {}
      /\ (/\ pages[p].status = "returned"
          /\ \/ use.frag = ""
             \/ namedSymbols(use) = <<>>
             \/ \E i \in TasksOf(tasks, p) : ~isLocalPath(tasks[i].res)) =>
           pages[p].dom = use

\* The <style> elements of page p that are still in the tree.
remainingStyles(p) ==
  {n \in 1..Len(pages[p].src.tags) : n \notin pages[p].dom.removed}

\* How often a text occurs in a list.
occurrences(list, text) == Cardinality({n \in 1..Len(list) : list[n] = text})

listed(list) == {list[n] : n \in 1..Len(list)}

\* C25: a stylesheet <link> or a <script src> is removed from the document
\* exactly when its URL is among the discovered URLs, so that every removed
\* tag has its entry in the returned lists and none is lost.
C25_RemovedTagsAreListed ==
  \A p \in Rewritten({"tags"}) :
    \A n \in 1..Len(pages[p].src.tags) :
      LET t == pages[p].src.tags[n]
          list == IF t.tag = "link" THEN pages[p].extractedLinkStyles
                  ELSE pages[p].extractedScriptPaths IN
      /\ n \in pages[p].dom.removed <=>
           t.url \in listed(discoveredUrls(pages[p].src.tags, t.tag))
      /\ n \in pages[p].dom.removed =>
           \E i \in TasksOf(tasks, p) :
             tasks[i].url = t.url /\ tasks[i].res \in listed(list)

\* C26: a successful downloadAndRewriteAsset(url, type) returns
\* /assets/<type>/<sha256(url)><ext>, ext being .css for styles, .js for
\* scripts and the extension of the URL's path otherwise, and the file is
\* stored under that name in the directory of the same type.
C26_PathNamesStoredFile ==
  \A r \in returns :
    isLocalPath(r.res) =>
      /\ r.res.form = "rootrel" /\ r.res.q = ""
      /\ r.res.dir = (CASE r.type = "images"  -> "/assets/images/"
                        [] r.type = "styles"  -> "/assets/styles/"
                        [] r.type = "scripts" -> "/assets/scripts/"
                        [] r.type = "fonts"   -> "/assets/fonts/")
      /\ r.res.name = "sha256" /\ r.res.hashOf = <<r.url>>
      /\ r.res.ext = (CASE r.type = "styles"  -> ".css"
                        [] r.type = "scripts" -> ".js"
                        [] OTHER              -> r.url.ext)
      /\ [root |-> "public", rel |-> r.res] \in DOMAIN fs

C26_Witness ==
  \E r1, r2, r3 \in returns :
    /\ r1.type = "styles" /\ isLocalPath(r1.res)
    /\ r2.type = "fonts" /\ isLocalPath(r2.res) /\ r2.url.ext = ".png"
    /\ r3.type = "scripts" /\ isLocalPath(r3.res)

\* The extensions of font files and of image files.
FontExts == {".woff", ".woff2", ".ttf", ".eot"}

ImageExts == {".png", ".jpg", ".jpeg", ".gif", ".svg", ".webp"}

\* C28: an origin-bound url() of a stylesheet is classified by the
\* extension of its path: a font extension is stored under /assets/fonts/,
\* an image extension under /assets/images/.
C28_ClassifiedByExtension ==
  \A r \in returns :
    (isLocalPath(r.res) /\ r.type \in {"images", "fonts"}) =>
      /\ r.url.ext \in FontExts => r.res.dir = "/assets/fonts/"
      /\ r.url.ext \in ImageExts => r.res.dir = "/assets/images/"

\* The src attribute of the <img> of page p, as it stands.
imgSrc(p) ==
  IF TasksOf(tasks, p) = {} THEN pages[p].dom.ref
  ELSE tasks[nthTask(p, 1)].attr

\* <img src="/image.png">
ImagePng == Ref("rootrel", "", "/", "image", ".png", "")

\* C27: an <img> whose src is origin-relative is localized as an image and
\* its src becomes the value the localizer returned: with the download
\* succeeding, /assets/images/<sha256 of the absolute URL><extension>.
C27_ImgLocalized ==
  \A p \in Rewritten({"img"}) :
    LET src == pages[p].src.ref IN
    src.form = "rootrel" =>
      /\ \E r \in returns :
           /\ r.url = [src EXCEPT !.form = "abs", !.host = OriginHost]
           /\ r.type = "images" /\ r.res = imgSrc(p)
      /\ ~anyFail =>
           /\ imgSrc(p) =
                [form |-> "rootrel", host |-> "", dir |-> "/assets/images/",
                 name |-> "sha256", ext |-> src.ext, q |-> "",
                 hashOf |-> <<[src EXCEPT !.form = "abs", !.host = OriginHost]>>]
           /\ [root |-> "public", rel |-> imgSrc(p)] \in DOMAIN fs

C27_Witness ==
  \E p \in Rewritten({"img"}) :
    /\ pages[p].src.ref = ImagePng
    /\ ~anyFail
    /\ imgSrc(p) =
         [form |-> "rootrel", host |-> "", dir |-> "/assets/images/",
          name |-> "sha256", ext |-> ".png", q |-> "",
          hashOf |-> <<Ref("abs", OriginHost, "/", "image", ".png", "")>>]

\* A url() whose reference new URL() rejects.
isMalformed(tok) == isUrlMatch(tok) /\ ~canParse(tok.ref)

\* A url() that is resolved against the document and localized.
isLocalizedUrl(tok) ==
  /\ isUrlMatch(tok) /\ canParse(tok.ref)
  /\ startsWithLiferayHost(resolve(tok.ref, LIFERAY_HOST))

\* Position n of a text was localized: it holds what a call for its URL
\* returned.
holdsReturned(old, new) ==
  \E r \in returns :
    r.url = resolve(old.ref, LIFERAY_HOST) /\ new = UrlTok(r.res)

\* C29: a malformed url() in a stylesheet text or in a style attribute is
\* skipped: it stays as it was, every other reference of the same text is
\* still processed, and the rewrite does not fail.
C29_MalformedSkipped ==
  \A p \in Pages :
    LET pg == pages[p] IN
    /\ pg.src.kind \in {"sattr", "styles"} => pg.status # "threw"
    /\ (pg.status = "returned" /\ pg.src.kind = "sattr") =>
         /\ Len(pg.dom.style) = Len(pg.src.style)
         /\ \A n \in 1..Len(pg.src.style) :
              /\ isMalformed(pg.src.style[n]) => pg.dom.style[n] = pg.src.style[n]
              /\ isLocalizedUrl(pg.src.style[n]) =>
                   holdsReturned(pg.src.style[n], pg.dom.style[n])
    /\ (pg.status = "returned" /\ pg.src.kind = "styles") =>
         \A i \in TasksOf(tasks, p) :
           LET old == tasks[i].input
               new == tasks[i].buf IN
           importMatches(old) = <<>> =>
             /\ Len(new) = Len(old)
             /\ new \in listed(pg.extractedStyles)
             /\ \A n \in 1..Len(old) :
                  /\ isMalformed(old[n]) => new[n] = old[n]
                  /\ isLocalizedUrl(old[n]) => holdsReturned(old[n], new[n])

C29_Witness ==
  \E p \in Rewritten({"sattr"}) :
    \E n, m \in 1..Len(pages[p].src.style) :
      /\ n < m
      /\ isMalformed(pages[p].src.style[n])
      /\ pages[p].dom.style[n] = pages[p].src.style[n]
      /\ isLocalPath(pages[p].dom.style[m].ref)

\* Page p has the error result and nothing of a rewrite.
failedUnstarted(p) ==
  /\ pages[p].src = NoUnit /\ pages[p].dom = NoUnit
  /\ TasksOf(tasks, p) = {}
  /\ pages[p].extractedStyles = <<>> /\ pages[p].extractedLinkStyles = <<>>
  /\ pages[p].extractedScriptPaths = <<>>

\* C30: a failure of the Render Driver for a page ends in an error result
\* for that page only: no rewrite is started for it, and the build of the
\* sibling pages goes on untouched.
C30_RenderFailureIsLocal ==
  /\ [](\A p \in Pages : pages[p].status = "error" => failedUnstarted(p))
  /\ [][\A p \in Pages :
          (pages[p].status # "error" /\ pages'[p].status = "error") =>
            /\ tasks' = tasks /\ fs' = fs
            /\ \A q \in Pages \ {p} : pages'[q] = pages[q]]_vars

C30_Witness ==
  \E p, q \in Pages :
    /\ pages[p].status = "error" /\ failedUnstarted(p)
    /\ pages[q].status = "returned" /\ TasksOf(tasks, q) # {}

\* C31: the localizer is invoked, and the Authorization header sent, only
\* for URLs whose host is the host of the source origin: no reference of a
\* document or of a stylesheet causes a fetch to another host.
C31_FetchesOnlyOrigin ==
  /\ \A u \in DOMAIN fetches : u.host = OriginHost
  /\ \A r \in returns : r.url.host = OriginHost

\* Some call is between the truncation and the write of the data of file.
midWrite(file) ==
  \E j \in TaskIds :
    \/ tasks[j].pc = "data" /\
       localFilePath(tasks[j].url, assetTypeOf(tasks[j].kind)) = file
    \/ tasks[j].pc = "wdata" /\ publicJoin(tasks[j].res) = file

\* C32: when downloadAndRewriteAsset has returned a local path, the file
\* exists and is completely written: a caller that took the cache-hit
\* branch and reads the file back never finds it missing or truncated.
C32_ReadBackComplete ==
  \A i \in TaskIds :
    (tasks[i].pc \in {"then", "read"} /\ isLocalPath(tasks[i].res)) =>
      /\ fileExists(publicJoin(tasks[i].res))
      /\ ~midWrite(publicJoin(tasks[i].res))

\* C33: when the fetch of an origin-bound @import target fails, the
\* directive is removed from the output, every other directive and rule of
\* the stylesheet is still processed (a rule and an external @import are
\* kept, the localizer is called for an origin-bound url() and the url() is
\* replaced), and the processing does not reject.
C33_FailedImportRemoved ==
  \A i \in TaskIds :
    LET t == tasks[i] IN
    t.failed # {} =>
      /\ t.pc # "rejected"
      /\ processedSheet(t) =>
           /\ \A n \in 1..Len(t.buf) :
                isImport(t.buf[n]) => ~isOriginBound(t.buf[n].ref, t.url)
           /\ \A n \in 1..Len(t.input) :
                LET tok == t.input[n] IN
                /\ tok.k = "rule" => tok \in listed(t.buf)
                /\ (isImport(tok) /\ canParse(tok.ref) /\
                    ~startsWithLiferayHost(resolve(tok.ref, t.url))) =>
                     tok \in listed(t.buf)
                /\ (isUrlMatch(tok) /\ canParse(tok.ref) /\
                    startsWithLiferayHost(resolve(tok.ref, t.url))) =>
                     \E r \in returns :
                       /\ r.url = resolve(tok.ref, t.url)
                       /\ tok \in listed(t.buf) => UrlTok(r.res) = tok

C33_Witness ==
  \E i \in TaskIds :
    /\ tasks[i].failed # {} /\ processedSheet(tasks[i])
    /\ Len(tasks[i].input) = 2 /\ Len(tasks[i].buf) = 1
    /\ isUrlMatch(tasks[i].buf[1]) /\ isLocalPath(tasks[i].buf[1].ref)

\* C34: an anchor whose href does not parse as an absolute URL and does not
\* start with '/' keeps its href, and the rewriting of anchors never throws.
C34_UnparsedHrefKept ==
  \A p \in Pages :
    LET a == pages[p].src IN
    a.kind = "a" =>
      /\ pages[p].status # "threw"
      /\ (pages[p].status = "returned" /\ a.href.form \in {"rel", "frag"}) =>
           pages[p].dom.href = a.href

\* The URLs of the requests of one type that a call has intercepted.
requested(r, type) ==
  {r.requests[n].url : n \in {m \in 1..Len(r.requests) : r.requests[m].type = type}}

\* A list of URLs of the source origin without repetition.
originListOnce(list) ==
  /\ \A n \in 1..Len(list) : startsWithLiferayHost(list[n])
  /\ \A n, m \in 1..Len(list) : list[n] = list[m] => n = m

\* C35: getLiferayFullPageHtml closes the browser it launched on every exit
\* path; every intercepted request is continued exactly once; the returned
\* stylesheet and script lists hold only URLs that start with the source
\* origin, each once.
C35_RenderDriverContract ==
  \A p \in Pages :
    LET r == pages[p].render IN
    /\ r.pc = "done" => r.browser # "open" /\ r.out.kind # "none"
    /\ (r.pc = "done" /\ r.out.kind = "return") => r.browser = "closed"
    /\ \A n \in 1..Len(r.requests) : r.requests[n].continued = 1
    /\ r.out.kind = "return" =>
         /\ originListOnce(r.out.discoveredCssUrls)
         /\ originListOnce(r.out.discoveredJsUrls)
         /\ listed(r.out.discoveredCssUrls) \subseteq requested(r, "stylesheet")
         /\ listed(r.out.discoveredJsUrls) \subseteq requested(r, "script")

C35_Witness ==
  \E p, q \in Pages :
    /\ pages[p].render.pc = "done" /\ pages[p].render.browser = "closed"
    /\ pages[p].render.out.kind = "return"
    /\ Len(pages[p].render.requests) = 2
    /\ requested(pages[p].render, "stylesheet") = {MainCss, ExtCss}
    /\ pages[p].render.out.discoveredCssUrls = <<MainCss>>
    /\ pages[q].render.pc = "done" /\ pages[q].render.out.kind = "throw"
    /\ pages[q].render.browser = "closed"

====
